---- MODULE Spec2Model ----
(***************************************************************************)
(* Model of pathway-service/simple_pathway_service.py:                     *)
(* AdvancedLiveDataService, the registry-driven ingestion scheduler, its   *)
(* fetch strategies, feed parser and delivery client.                      *)
(*                                                                         *)
(* A source configuration (one JSON object of the registry's reply) is a   *)
(* record.  A key that may be missing from the JSON object is modelled by  *)
(* the set "keys" of the metadata keys that are present, or by the value   *)
(* "absent" of the field.  Time is in seconds.                             *)
(***************************************************************************)
EXTENDS Integers, Sequences, FiniteSets, TLC

VARIABLES
    pc,          \* position of run_source_monitoring
    sources,     \* the registry snapshot of the current sweep
    idx,         \* index of the source the for-loop is at
    data_items,  \* process_source: the items returned by the fetch strategy
    item_no,     \* process_source: index of the item being delivered
    log,         \* per source of the snapshot: what this sweep did for it
    registry,    \* outcome of the registry query of the current iteration
    last_sleep,  \* at the top of the loop: the sleep the loop has just taken
    tzOffset,    \* offset of the host's local time zone from UTC, seconds
    stopSignal,  \* an external stop signal (interrupt) was delivered
    call,        \* a direct call of one function: its inputs and its result
    registered_sources,  \* self.registered_sources
    active_tasks,        \* self.active_tasks
    clock,       \* the wall clock (UTC instant), where the run is timed
    ingested,    \* the registry's lastIngestedAt of the timed source
    skipped      \* not-due checks of the timed source since it was processed

\* the fields of the service object besides backend_url
fields == <<registered_sources, active_tasks>>

\* the variables of a timed run
timeline == <<clock, ingested, skipped>>

vars == <<pc, sources, idx, data_items, item_no, log, registry, last_sleep,
          tzOffset, stopSignal, call, fields, timeline>>

----------------------------------------------------------------------------
(* Bounds of the model *)

MaxSources == 2      \* longest registry snapshot
MaxFeedItems == 1    \* most <item> elements of a feed document the scheduler fetches
MaxDocItems == 12    \* most elements of a document handed to the parser directly
MaxClock == 900      \* last instant of a timed run, seconds

(* Program constants *)

DefaultInterval == 300   \* source.get('ingestionInterval', 300)
IdleSleep == 30          \* asyncio.sleep(30) on an empty snapshot
SweepSleep == 60         \* asyncio.sleep(60) after a sweep
ItemCap == 10            \* rss_items[:10]
DescLimit == 500         \* [:500] and "> 500"
NumCities == 8           \* len(WeatherDataSource.cities)
ingestion_interval == 300    \* INGESTION_INTERVAL, default '300'
max_retries == 3         \* MAX_RETRIES, default '3'
CycleErrorSleep == 60    \* asyncio.sleep(60) after an exception in a cycle
ErrorSleep == 30         \* asyncio.sleep(30) after a loop-level exception
MockArticles == 2        \* generate_mock_rss_data returns two articles

MetaKeys == {"sourceId", "sourceType", "sourceName", "sourceUrl", "maxEntries"}

----------------------------------------------------------------------------
(* Input domains *)

\* lastIngestedAt: absent, not an ISO timestamp, or an instant (utc, seconds)
\* written with a zone designator of offset "off" ("Z" is offset 0).
NoTimestamp == [kind |-> "absent", utc |-> 0, off |-> 0]
BadTimestamp == [kind |-> "invalid", utc |-> 0, off |-> 0]
ZTimestamp == [kind |-> "ts", utc |-> 0, off |-> 0]

\* ingestionInterval: absent, a number, or a value that is not a number
NoInterval == [kind |-> "absent", val |-> 0]
BadInterval == [kind |-> "bad", val |-> 0]
NumInterval(n) == [kind |-> "num", val |-> n]

\* readings of the wall clock (UTC instants), around the due boundaries
ClockReadings == {DefaultInterval - 1, DefaultInterval, DefaultInterval + 1}

\* the host's time zone: UTC, or one hour west or east of UTC
TzOffsets == {-3600, 0, 3600}

BaseSource ==
    [mapping |-> TRUE,
     keys |-> MetaKeys,
     sourceId |-> 1,
     sourceType |-> "weather",
     sourceName |-> "name",
     sourceUrl |-> "",
     status |-> "active",
     isActive |-> "true",
     lastIngestedAt |-> NoTimestamp,
     ingestionInterval |-> NoInterval,
     config |-> "object",
     cities |-> <<"New York">>,
     apiKey |-> "absent"]

\* Variations of the scheduling fields (status, isActive, lastIngestedAt,
\* ingestionInterval) of an otherwise well-formed weather source.
SchedulingSources ==
    { [BaseSource EXCEPT !.lastIngestedAt = ZTimestamp],
      [BaseSource EXCEPT !.lastIngestedAt = ZTimestamp,
                         !.ingestionInterval = NumInterval(SweepSleep)],
      [BaseSource EXCEPT !.status = "paused"],
      [BaseSource EXCEPT !.isActive = "false"],
      [BaseSource EXCEPT !.isActive = "absent"],
      [BaseSource EXCEPT !.lastIngestedAt = BadTimestamp],
      [BaseSource EXCEPT !.lastIngestedAt = ZTimestamp,
                         !.ingestionInterval = BadInterval] }

\* Variations of the processing fields of a source that is eligible and has
\* never been ingested.
ProcessingSources ==
    { BaseSource,
      [BaseSource EXCEPT !.keys = MetaKeys \ {"sourceUrl"}],
      [BaseSource EXCEPT !.apiKey = "real", !.cities = <<"London">>],
      [BaseSource EXCEPT !.config = "null"],
      [BaseSource EXCEPT !.sourceType = "rss", !.sourceUrl = "http://feed"],
      [BaseSource EXCEPT !.sourceType = "rss", !.keys = MetaKeys \ {"sourceUrl"}],
      [BaseSource EXCEPT !.sourceType = "news", !.sourceUrl = "http://feed",
                         !.keys = MetaKeys \ {"maxEntries"}],
      [BaseSource EXCEPT !.sourceType = "podcast"],
      [BaseSource EXCEPT !.keys = MetaKeys \ {"sourceName"}] }

\* A snapshot entry that is not a JSON object (source.get raises).
NotAMapping == [BaseSource EXCEPT !.mapping = FALSE]

SourceConfigs == SchedulingSources \cup ProcessingSources \cup {NotAMapping}

\* Further configurations for direct calls of the fetch strategies and of the
\* delivery client (process_source rejects a source without sourceId).
DirectCallSources ==
    ProcessingSources \cup
    { [BaseSource EXCEPT !.apiKey = "real", !.cities = <<"London", "Paris">>],
      [BaseSource EXCEPT !.apiKey = "demo-key", !.cities = <<>>],
      [BaseSource EXCEPT !.apiKey = "", !.cities = <<"Oslo">>],
      [BaseSource EXCEPT !.apiKey = "demo-key", !.cities = <<"Tokyo", "Atlantis">>],
      [BaseSource EXCEPT !.config = "absent"],
      [BaseSource EXCEPT !.keys = MetaKeys \ {"sourceId"}],
      [BaseSource EXCEPT !.sourceType = "rss", !.sourceUrl = "http://feed",
                         !.keys = MetaKeys \ {"sourceName"}] }

\* all sequences over S of length at most n
RECURSIVE SeqsUpTo(_, _)
SeqsUpTo(S, n) ==
    IF n = 0 THEN {<<>>}
    ELSE LET shorter == SeqsUpTo(S, n - 1)
         IN  shorter \cup {Append(q, x) : q \in {r \in shorter : Len(r) = n - 1}, x \in S}

\* the registry snapshots
Snapshots == SeqsUpTo(SourceConfigs, MaxSources)

\* The tags get_xml_text looks for, and the Atom title it does not look for.
Tags ==
    {"title", "description", "summary", "{atom}summary", "link", "guid", "{atom}link",
     "pubDate", "published", "{atom}published", "{atom}title"}

\* The text of a child element: lead white-space characters, then body
\* characters that begin and end with a non-space, then trail white-space
\* characters.  A child without text (found.text None or '') has no characters.
Text(lead, body, trail) == [child |-> TRUE, lead |-> lead, body |-> body, trail |-> trail]
NoText == Text(0, 0, 0)
NoChild == [child |-> FALSE, lead |-> 0, body |-> 0, trail |-> 0]

\* the children of an element, by tag; given lists those that are present
Children(given) == [t \in Tags |-> IF t \in DOMAIN given THEN given[t] ELSE NoChild]

\* an RSS 2.0 <item> with this title and description, a link and a date
RssItem(title, description) ==
    Children("title" :> title @@ "description" :> description @@
             "link" :> Text(0, 30, 0) @@ "pubDate" :> Text(0, 29, 0))

\* an Atom <entry>: its children are in the Atom namespace, the link is an
\* empty element with an href attribute
AtomEntry ==
    Children("{atom}title" :> Text(0, 5, 0) @@ "{atom}summary" :> Text(0, 40, 0) @@
             "{atom}link" :> NoText @@ "{atom}published" :> Text(0, 20, 0))

\* the elements of a document in document order, each with its position
Numbered(q) == [i \in 1..Len(q) |-> [pos |-> i, children |-> q[i]]]

\* a well-formed document: its <item> elements and its Atom <entry> elements
Document(items, entries) ==
    [wellFormed |-> TRUE, items |-> Numbered(items), entries |-> Numbered(entries)]

\* a body ET.fromstring rejects
Malformed == [wellFormed |-> FALSE, items |-> <<>>, entries |-> <<>>]

\* <item> elements of a feed: with a title, or without one
FeedElements ==
    {RssItem(Text(0, 5, 0), Text(0, 40, 0)), RssItem(NoChild, Text(0, 40, 0))}

\* feed documents: malformed XML, or a well-formed document with its elements
Feeds ==
    {Malformed} \cup {Document(q, <<>>) : q \in SeqsUpTo(FeedElements, MaxFeedItems)}

\* descriptions around the truncation limit, bare and padded with white space
Descriptions ==
    {Text(0, DescLimit - 1, 0), Text(0, DescLimit, 0), Text(0, DescLimit + 1, 0),
     Text(0, DescLimit + 100, 0), Text(0, DescLimit, 1), Text(1, DescLimit, 0),
     Text(1, DescLimit + 100, 1), Text(1, 40, 1), Text(1, 0, 0), NoText, NoChild}

\* <item> elements with one particularity each
SpecialElements ==
    {RssItem(Text(0, 5, 0), d) : d \in Descriptions} \cup
    { RssItem(NoText, Text(0, 40, 0)),                 \* <title/>
      RssItem(Text(2, 0, 0), Text(0, 40, 0)),          \* a title of white space
      RssItem(Text(1, 5, 1), Text(0, 40, 0)),          \* a padded title
      Children("title" :> Text(0, 5, 0)),              \* nothing but a title
      Children("title" :> Text(0, 5, 0) @@ "summary" :> Text(0, DescLimit + 1, 0) @@
               "guid" :> Text(0, 30, 0) @@ "published" :> Text(0, 20, 0)),
      Children("title" :> Text(0, 5, 0) @@ "description" :> NoText @@
               "summary" :> Text(0, 40, 0) @@ "link" :> Text(0, 30, 0)),
      Children("title" :> Text(0, 5, 0) @@ "description" :> Text(0, 40, 0) @@
               "pubDate" :> Text(0, 29, 0)),           \* no link
      Children("title" :> Text(0, 5, 0) @@ "description" :> Text(0, 40, 0) @@
               "link" :> Text(0, 30, 0)) }             \* no date

\* RSS 2.0 documents of up to MaxDocItems <item> elements that are all alike,
\* but for at most one element with a particularity
RssDocuments ==
    {Document([i \in 1..n |-> IF i = p THEN special ELSE plain], <<>>) :
        n \in 0..MaxDocItems, p \in 0..MaxDocItems,
        plain \in FeedElements, special \in SpecialElements}

\* Atom documents: no <item> element, up to MaxDocItems entries
AtomDocuments ==
    {Document(<<>>, [i \in 1..n |-> AtomEntry]) : n \in 1..MaxDocItems}

\* the documents handed to parse_rss_content directly
ParseDocuments == Feeds \cup RssDocuments \cup AtomDocuments

\* the bodies of a 200 response handed to fetch_rss_data directly
DirectCallFeeds == Feeds \cup {d \in AtomDocuments : Len(d.entries) <= 2}

\* outcomes of one HTTP call to the weather provider
ProviderOutcomes == {"200", "200-malformed", "non-200", "timeout"}

\* outcomes of the GET of a feed URL
FeedOutcomes == {"200", "non-200", "error"}

\* outcomes of the POST to the ingestion backend
PostOutcomes ==
    {"200-message", "200-no-message", "200-not-json", "500", "connection-error", "timeout"}

\* the backend answered the POST with HTTP 200
Answered200(outcome) == outcome \in {"200-message", "200-no-message", "200-not-json"}

\* outcomes of the GET of the registry
RegistryOutcomes == {"200", "200-no-sources", "200-not-json", "non-200", "error"}

----------------------------------------------------------------------------
(* Fetch strategies, feed parser, delivery client *)

Has(source_config, key) == key \in source_config.keys

\* a returned value, or an exception that propagates to the caller
Return(items) == [raised |-> FALSE, items |-> items]
Raise == [raised |-> TRUE, items |-> <<>>]

\* the 'city' of an item: the requested city itself (line 112), or the
\* name the provider reports for it, data['name'] (line 63)
RequestedCity(city) == [q |-> city, reported |-> FALSE]
ProviderCity(city) == [q |-> city, reported |-> TRUE]

\* generate_mock_weather_data(city, source_id): the synthetic item of a city
generate_mock_weather_data(city, source_id) ==
    [type |-> "weather", synthetic |-> TRUE, label |-> RequestedCity(city),
     sourceId |-> source_id]

\* the item built from a 200 response of the weather provider
live_weather_data(city, source_id) ==
    [type |-> "weather", synthetic |-> FALSE, label |-> ProviderCity(city),
     sourceId |-> source_id]

\* mutant: the placeholder key "demo-key" is sent to the provider
UsesProvider_IgnoresDemoKey(api_key) ==
    api_key # "absent" /\ api_key # ""

\* "if api_key and api_key != 'demo-key'"
UsesProvider(api_key) ==
    api_key # "absent" /\ api_key # "" /\ api_key # "demo-key"

\* source_config.get('config', {}).get('cities', ['New York'])
ConfiguredCities(source_config) ==
    IF source_config.config = "absent" THEN <<"New York">> ELSE source_config.cities

\* source_config.get('config', {}).get('apiKey')
ConfiguredApiKey(source_config) ==
    IF source_config.config = "absent" THEN "absent" ELSE source_config.apiKey

\* mutant: no handler around a city, its failure reaches the outer handler
fetch_weather_data_NoCityHandler(source_config, outcomes) ==
    IF source_config.config = "null"
    THEN Return(<<>>)
    ELSE IF ~Has(source_config, "sourceId")
    THEN Return(<<>>)
    ELSE LET cities == ConfiguredCities(source_config)
             api_key == ConfiguredApiKey(source_config)
         IN  IF /\ UsesProvider(api_key)
                /\ \E i \in 1..Len(cities) : outcomes[i] \in {"timeout", "200-malformed"}
             THEN Return(<<>>)
             ELSE Return([i \in 1..Len(cities) |->
                       IF UsesProvider(api_key) /\ outcomes[i] = "200"
                       THEN live_weather_data(cities[i], source_config.sourceId)
                       ELSE generate_mock_weather_data(cities[i], source_config.sourceId)])

\* fetch_weather_data(session, source_config); outcomes[i] is the outcome of
\* the provider call for the i-th city (consulted only with a real key).
fetch_weather_data(source_config, outcomes) ==
    IF source_config.config = "null"
    THEN Return(<<>>)     \* None.get raises, the outer handler returns []
    ELSE IF ~Has(source_config, "sourceId")
    THEN Return(<<>>)     \* KeyError in the city handler, outer handler returns []
    ELSE LET cities == ConfiguredCities(source_config)
             api_key == ConfiguredApiKey(source_config)
         IN  Return([i \in 1..Len(cities) |->
                       IF UsesProvider(api_key) /\ outcomes[i] = "200"
                       THEN live_weather_data(cities[i], source_config.sourceId)
                       ELSE generate_mock_weather_data(cities[i], source_config.sourceId)])

\* the number of GET requests fetch_weather_data sends to the provider: one
\* per city with a usable key; without sourceId the first city ends the call
provider_calls(source_config) ==
    IF source_config.config = "null" THEN 0
    ELSE IF ~UsesProvider(ConfiguredApiKey(source_config)) THEN 0
    ELSE IF Has(source_config, "sourceId") THEN Len(ConfiguredCities(source_config))
    ELSE IF ConfiguredCities(source_config) = <<>> THEN 0
    ELSE 1

\* generate_mock_rss_data(source_config): two synthetic articles; raises a
\* KeyError when sourceName, sourceId or sourceUrl is missing.
generate_mock_rss_data(source_config) ==
    IF {"sourceName", "sourceId", "sourceUrl"} \subseteq source_config.keys
    THEN Return([i \in 1..MockArticles |->
                   [type |-> "rss_article", synthetic |-> TRUE, label |-> "mock",
                    sourceId |-> source_config.sourceId,
                    sourceName |-> source_config.sourceName,
                    sourceUrl |-> source_config.sourceUrl]])
    ELSE Raise

\* A string taken from a document: the characters from (exclusive) up to to
\* of the text of the child tag of the element at position of.  None is
\* Python's None; the empty string has no origin.
None == [none |-> TRUE, of |-> 0, tag |-> "", from |-> 0, to |-> 0]
EmptyStr == [none |-> FALSE, of |-> 0, tag |-> "", from |-> 0, to |-> 0]
Slice(of, tag, from, to) ==
    IF to <= from THEN EmptyStr
    ELSE [none |-> FALSE, of |-> of, tag |-> tag, from |-> from, to |-> to]
StrLen(s) == s.to - s.from
Truthy(s) == ~s.none /\ StrLen(s) > 0

\* get_xml_text(element, tag_names): the stripped text of the first child
\* among tag_names that is found and has text, None when there is none
RECURSIVE get_xml_text(_, _)
get_xml_text(element, tag_names) ==
    IF tag_names = <<>> THEN None
    ELSE LET tag == Head(tag_names)
             found == element.children[tag]
         IN  IF found.child /\ found.lead + found.body + found.trail > 0
             THEN Slice(element.pos, tag, found.lead, found.lead + found.body)
             ELSE get_xml_text(element, Tail(tag_names))

\* mutant: the marker is added from DescLimit characters on
Truncated_MarkerAtLimit(description) ==
    LET d == IF Truthy(description) THEN description ELSE EmptyStr
    IN  [text |-> Slice(d.of, d.tag, d.from,
                        IF StrLen(d) > DescLimit THEN d.from + DescLimit ELSE d.to),
         marker |-> StrLen(d) >= DescLimit]

\* (description or '').strip()[:500] + ('...' if len(description or '') > 500 else '')
Truncated(description) ==
    LET d == IF Truthy(description) THEN description ELSE EmptyStr
    IN  [text |-> Slice(d.of, d.tag, d.from,
                        IF StrLen(d) > DescLimit THEN d.from + DescLimit ELSE d.to),
         marker |-> StrLen(d) > DescLimit]

\* datetime.now().isoformat()
NowStamp == [none |-> FALSE, of |-> 0, tag |-> "datetime.now", from |-> 0, to |-> 26]

\* the rss_item built from an element that has a title
rss_item(element, source_config) ==
    LET title == get_xml_text(element, <<"title">>)
        description == get_xml_text(element, <<"description", "summary", "{atom}summary">>)
        link == get_xml_text(element, <<"link", "guid", "{atom}link">>)
        pub_date == get_xml_text(element, <<"pubDate", "published", "{atom}published">>)
    IN  [type |-> "rss_article", synthetic |-> FALSE,
         title |-> title,
         description |-> Truncated(description),
         link |-> IF Truthy(link) THEN link ELSE EmptyStr,
         timestamp |-> IF Truthy(pub_date) THEN pub_date ELSE NowStamp,
         sourceId |-> source_config.sourceId,
         sourceName |-> source_config.sourceName,
         sourceUrl |-> source_config.sourceUrl]

\* mutant: every element is kept, titled or not
Kept_Always(title) == TRUE

\* "if title:"
Kept(title) == Truthy(title)

\* the for-loop of parse_rss_content: the elements that have a title, in
\* document order
RECURSIVE TitledItems(_)
TitledItems(q) ==
    IF q = <<>> THEN <<>>
    ELSE IF Kept(get_xml_text(Head(q), <<"title">>))
    THEN <<Head(q)>> \o TitledItems(Tail(q))
    ELSE TitledItems(Tail(q))

\* root.findall('.//item'), and the Atom entries if there is no item
MatchedItems(content) ==
    IF content.items # <<>> THEN content.items ELSE content.entries

\* mutant: no cap on the number of elements
FirstItems_NoCap(q) == q

\* rss_items[:10]
FirstItems(q) == SubSeq(q, 1, IF Len(q) < ItemCap THEN Len(q) ELSE ItemCap)

\* mutant: no handler around ET.fromstring, a malformed body raises
parse_rss_content_NoOuterHandler(content, source_config) ==
    IF ~content.wellFormed
    THEN Raise
    ELSE LET complete == {"sourceId", "sourceName", "sourceUrl"} \subseteq source_config.keys
             kept == IF complete THEN TitledItems(FirstItems(MatchedItems(content))) ELSE <<>>
         IN  Return([i \in 1..Len(kept) |-> rss_item(kept[i], source_config)])

\* parse_rss_content(content, source_config): never raises; an element is
\* kept when it has a title and building its item raised no KeyError.
parse_rss_content(content, source_config) ==
    IF ~content.wellFormed
    THEN Return(<<>>)
    ELSE LET complete == {"sourceId", "sourceName", "sourceUrl"} \subseteq source_config.keys
             kept == IF complete THEN TitledItems(FirstItems(MatchedItems(content))) ELSE <<>>
         IN  Return([i \in 1..Len(kept) |-> rss_item(kept[i], source_config)])

\* mutant: no synthetic fallback when the feed cannot be fetched
fetch_rss_data_NoFallback(source_config, http, content) ==
    IF ~Has(source_config, "sourceUrl") \/ source_config.sourceUrl = ""
    THEN Return(<<>>)
    ELSE IF http = "200"
    THEN LET rss_items == parse_rss_content(content, source_config)
         IN  IF rss_items.raised THEN generate_mock_rss_data(source_config)
             ELSE IF rss_items.items # <<>> THEN rss_items
             ELSE generate_mock_rss_data(source_config)
    ELSE Return(<<>>)

\* mutant: the synthetic articles are added to the parsed items
fetch_rss_data_AppendsMock(source_config, http, content) ==
    IF ~Has(source_config, "sourceUrl") \/ source_config.sourceUrl = ""
    THEN Return(<<>>)
    ELSE IF http = "200"
    THEN LET rss_items == parse_rss_content(content, source_config)
             mock == generate_mock_rss_data(source_config)
         IN  IF rss_items.raised \/ mock.raised THEN mock
             ELSE Return(rss_items.items \o mock.items)
    ELSE generate_mock_rss_data(source_config)

\* fetch_rss_data(session, source_config): http is the outcome of the GET of
\* the feed URL, content the body of a 200 response.
fetch_rss_data(source_config, http, content) ==
    IF ~Has(source_config, "sourceUrl") \/ source_config.sourceUrl = ""
    THEN Return(<<>>)
    ELSE IF http = "200"
    THEN LET rss_items == parse_rss_content(content, source_config)
         IN  IF rss_items.raised THEN generate_mock_rss_data(source_config)
             ELSE IF rss_items.items # <<>> THEN rss_items
             ELSE generate_mock_rss_data(source_config)
    ELSE generate_mock_rss_data(source_config)

\* the (success, message) pair send_data_to_backend returns; posted tells
\* whether a POST was issued
Sent(success, message, posted) ==
    [raised |-> FALSE, success |-> success, message |-> message, posted |-> posted]

\* an exception leaves send_data_to_backend
SendRaises == [raised |-> TRUE, success |-> FALSE, message |-> "", posted |-> FALSE]

\* mutant: the payload is built before the try, its KeyError is not caught
send_data_to_backend_PayloadOutsideTry(source_config, outcome) ==
    IF ~(MetaKeys \subseteq source_config.keys)
    THEN SendRaises
    ELSE IF outcome = "200-message" THEN Sent(TRUE, "ok", TRUE)
    ELSE IF outcome = "200-no-message" THEN Sent(TRUE, "Success", TRUE)
    ELSE IF outcome = "500" THEN Sent(FALSE, "HTTP 500", TRUE)
    ELSE Sent(FALSE, "Connection error", TRUE)

\* send_data_to_backend(session, data, source_config): outcome is what the
\* backend does with the POST.  Every exception inside the try (the KeyError
\* of a missing metadata key while the payload is built, a transport error,
\* a timeout, a 200 body that is not JSON) is returned as a failure.
send_data_to_backend(source_config, outcome) ==
    IF ~(MetaKeys \subseteq source_config.keys)
    THEN Sent(FALSE, "Connection error", FALSE)
    ELSE IF outcome = "200-message" THEN Sent(TRUE, "ok", TRUE)
    ELSE IF outcome = "200-no-message" THEN Sent(TRUE, "Success", TRUE)
    ELSE IF outcome = "500" THEN Sent(FALSE, "HTTP 500", TRUE)
    ELSE Sent(FALSE, "Connection error", TRUE)

\* mutant: no try/except around the registry query
get_registered_sources_NoHandler(outcome, snapshot) ==
    IF outcome = "200" THEN Return(snapshot)
    ELSE IF outcome = "non-200" THEN Return(<<>>)
    ELSE Raise

\* get_registered_sources(): the sources of a 200 reply; [] for a non-200
\* reply and for any exception (transport failure, a body that is not JSON)
get_registered_sources(outcome, snapshot) ==
    IF outcome = "200" THEN Return(snapshot) ELSE Return(<<>>)

----------------------------------------------------------------------------
(* The scheduler: run_source_monitoring and process_source *)

\* no direct call has been made
NoCall == [fn |-> "none"]

\* {}: a dict without keys
EmptyDict == <<>>

\* asyncio.sleep(seconds) of the loop, by the place it is taken at
Slept(kind, seconds) == [kind |-> kind, seconds |-> seconds]
NoSleep == Slept("none", 0)

\* what a sweep has done for one source of its snapshot
NoLog ==
    [evaluated |-> FALSE,   \* the for-loop reached the source
     now |-> -1,            \* the clock reading of its due check, -1 if none
     processed |-> FALSE,   \* process_source was invoked
     fetches |-> 0,         \* calls of a fetch strategy
     total |-> 0,           \* items the fetch strategy returned
     sends |-> 0,           \* calls of send_data_to_backend
     posts |-> 0,           \* POSTs issued to the backend
     success |-> 0,         \* success_count
     caught |-> FALSE,      \* an exception was caught at a per-source handler
     reported |-> FALSE]    \* the per-source summary line was printed

\* mutant: the isActive flag is not consulted
Eligible_StatusOnly(source) == source.status = "active"

\* source.get('status') == 'active' and source.get('isActive')
Eligible(source) == source.status = "active" /\ source.isActive = "true"

\* source.get('ingestionInterval', 300)
Interval(source) ==
    IF source.ingestionInterval.kind = "absent" THEN DefaultInterval
    ELSE source.ingestionInterval.val

\* (current_time - last_time.replace(tzinfo=None)).total_seconds():
\* datetime.now() is the naive local time, last_time.replace(tzinfo=None) the
\* wall time of the timestamp in the zone it was written in.
time_diff(source, now, tz) ==
    (now + tz) - (source.lastIngestedAt.utc + source.lastIngestedAt.off)

\* mutant: the loop-level handler leaves the loop
LoopHandler_Break == "stopped"

\* mutant: a loop-level exception only ends the for-loop
LoopHandler_SweepSleep == "sweep_sleep"

\* lines 391-393: where an exception caught at the loop boundary leads
LoopHandler == "error_sleep"

\* mutant: after the last source the loop starts over without sleeping
Advance_NoSleep ==
    /\ idx' = idx + 1
    /\ pc' = IF idx = Len(sources) THEN "registry" ELSE "check"
    /\ data_items' = <<>>
    /\ item_no' = 0

\* the for-loop moves to the next source, or the sweep ends
Advance ==
    /\ idx' = idx + 1
    /\ pc' = IF idx = Len(sources) THEN "sweep_sleep" ELSE "check"
    /\ data_items' = <<>>
    /\ item_no' = 0

\* mutant: the snapshot of the sweep is kept in self.registered_sources
NextIteration_KeepsSnapshot ==
    /\ pc' = "registry"
    /\ sources' = <<>>
    /\ log' = <<>>
    /\ idx' = 1
    /\ registry' = "none"
    /\ registered_sources' = sources
    /\ UNCHANGED <<data_items, item_no, tzOffset, active_tasks, timeline, stopSignal, call>>

\* back at the top of the while-loop: the locals of the last sweep are dead
NextIteration ==
    /\ pc' = "registry"
    /\ sources' = <<>>
    /\ log' = <<>>
    /\ idx' = 1
    /\ registry' = "none"
    /\ UNCHANGED <<data_items, item_no, tzOffset, fields, timeline, stopSignal, call>>

\* mutant: no per-source handler, the exception reaches the loop boundary
CaughtAtSource_Propagates(entry) ==
    /\ log' = [log EXCEPT ![idx] = [entry EXCEPT !.caught = TRUE]]
    /\ pc' = LoopHandler
    /\ UNCHANGED <<idx, data_items, item_no>>

\* mutant: a source whose due check raises is processed as if never ingested
CaughtAtSource_TreatsAsDue(entry) ==
    /\ log' = [log EXCEPT ![idx] = [entry EXCEPT !.processed = TRUE]]
    /\ pc' = "process"
    /\ UNCHANGED <<idx, data_items, item_no>>

\* lines 379-380: an exception of the due check or of process_source is
\* caught in the for-loop, which goes on with the next source
CaughtAtSource(entry) ==
    /\ log' = [log EXCEPT ![idx] = [entry EXCEPT !.caught = TRUE]]
    /\ Advance

Init ==
    /\ pc = "registry"
    /\ sources = <<>>
    /\ idx = 1
    /\ data_items = <<>>
    /\ item_no = 0
    /\ log = <<>>
    /\ registry = "none"
    /\ last_sleep = NoSleep
    /\ tzOffset \in TzOffsets
    /\ stopSignal = FALSE
    /\ call = NoCall
    /\ registered_sources = EmptyDict
    /\ active_tasks = EmptyDict
    /\ clock = 0
    /\ ingested = 0
    /\ skipped = 0

\* lines 339-349: query the registry; an empty result is an idle sweep
GetRegisteredSources ==
    /\ pc = "registry"
    /\ \E outcome \in RegistryOutcomes, snapshot \in Snapshots :
         LET result == get_registered_sources(outcome, snapshot)
             found == result.items
         IN  /\ registry' = outcome
             /\ IF result.raised
                THEN \* caught at the loop boundary
                     /\ pc' = LoopHandler
                     /\ UNCHANGED <<sources, log>>
                ELSE /\ sources' = found
                     /\ log' = [i \in 1..Len(found) |-> NoLog]
                     /\ pc' = IF found = <<>> THEN "idle_sleep" ELSE "check"
    /\ idx' = 1
    /\ data_items' = <<>>
    /\ item_no' = 0
    /\ last_sleep' = NoSleep
    /\ UNCHANGED <<tzOffset, fields, timeline, stopSignal, call>>

\* lines 352-382: the eligibility and due check of the source at idx
CheckSource ==
    /\ pc = "check"
    /\ LET source == sources[idx]
           last_ingested == source.lastIngestedAt
       IN  IF ~source.mapping
           THEN \* source.get raises outside the per-source try
                /\ pc' = LoopHandler
                /\ UNCHANGED <<idx, data_items, item_no, log>>
           ELSE IF ~Eligible(source)
           THEN /\ log' = [log EXCEPT ![idx].evaluated = TRUE]
                /\ Advance
           ELSE IF last_ingested.kind = "absent"
           THEN /\ log' = [log EXCEPT ![idx].evaluated = TRUE, ![idx].processed = TRUE]
                /\ pc' = "process"
                /\ UNCHANGED <<idx, data_items, item_no>>
           ELSE IF last_ingested.kind = "invalid"
           THEN \* datetime.fromisoformat raises
                CaughtAtSource([log[idx] EXCEPT !.evaluated = TRUE])
           ELSE \E now \in ClockReadings :
                  IF source.ingestionInterval.kind = "bad"
                  THEN \* time_diff >= interval raises
                       CaughtAtSource([log[idx] EXCEPT !.evaluated = TRUE])
                  ELSE IF time_diff(source, now, tzOffset) >= Interval(source)
                  THEN /\ log' = [log EXCEPT ![idx].evaluated = TRUE, ![idx].now = now,
                                             ![idx].processed = TRUE]
                       /\ pc' = "process"
                       /\ UNCHANGED <<idx, data_items, item_no>>
                  ELSE /\ log' = [log EXCEPT ![idx].evaluated = TRUE, ![idx].now = now]
                       /\ Advance
    /\ UNCHANGED <<sources, registry, last_sleep, tzOffset, fields, timeline, stopSignal, call>>

\* mutant: the delivery is started as a background task and not awaited
AfterFetch_Detached(result) ==
    IF result.raised
    THEN /\ log' = [log EXCEPT ![idx].fetches = 1, ![idx].caught = TRUE]
         /\ Advance
    ELSE /\ log' = [log EXCEPT ![idx].fetches = 1, ![idx].total = Len(result.items)]
         /\ Advance

\* what process_source does with the result of a fetch strategy
AfterFetch(result) ==
    IF result.raised
    THEN \* caught at line 328
         /\ log' = [log EXCEPT ![idx].fetches = 1, ![idx].caught = TRUE]
         /\ Advance
    ELSE IF result.items = <<>>
    THEN \* "No data retrieved"
         /\ log' = [log EXCEPT ![idx].fetches = 1]
         /\ Advance
    ELSE /\ log' = [log EXCEPT ![idx].fetches = 1, ![idx].total = Len(result.items)]
         /\ data_items' = result.items
         /\ item_no' = 1
         /\ pc' = "deliver"
         /\ UNCHANGED idx

\* lines 295-314: process_source up to the end of the fetch
ProcessSource ==
    /\ pc = "process"
    /\ LET source_config == sources[idx]
       IN  IF ~({"sourceId", "sourceType", "sourceName"} \subseteq source_config.keys)
           THEN \* KeyError at lines 295-297
                CaughtAtSource(log[idx])
           ELSE IF source_config.sourceType = "weather"
           THEN \E outcomes \in [1..Len(ConfiguredCities(source_config)) -> ProviderOutcomes] :
                  AfterFetch(fetch_weather_data(source_config, outcomes))
           ELSE IF source_config.sourceType \in {"rss", "news"}
           THEN \E http \in FeedOutcomes, content \in Feeds :
                  AfterFetch(fetch_rss_data(source_config, http, content))
           ELSE \* unsupported source type
                /\ log' = log
                /\ Advance
    /\ UNCHANGED <<sources, registry, last_sleep, tzOffset, fields, timeline, stopSignal, call>>

\* lines 318-326: deliver the item at item_no; after the last one, the summary
SendItem ==
    /\ pc = "deliver"
    /\ \E outcome \in PostOutcomes :
         LET sent == send_data_to_backend(sources[idx], outcome)
             entry == [log[idx] EXCEPT
                         !.sends = @ + 1,
                         !.posts = IF sent.posted THEN @ + 1 ELSE @,
                         !.success = IF sent.success THEN @ + 1 ELSE @]
         IN  IF sent.raised
             THEN \* caught at line 328, the remaining items are not sent
                  /\ log' = [log EXCEPT ![idx].sends = @ + 1, ![idx].caught = TRUE]
                  /\ Advance
             ELSE IF item_no = Len(data_items)
             THEN /\ log' = [log EXCEPT ![idx] = [entry EXCEPT !.reported = TRUE]]
                  /\ Advance
             ELSE /\ log' = [log EXCEPT ![idx] = entry]
                  /\ item_no' = item_no + 1
                  /\ UNCHANGED <<pc, idx, data_items>>
    /\ UNCHANGED <<sources, registry, last_sleep, tzOffset, fields, timeline, stopSignal, call>>

\* line 346: asyncio.sleep(30) after an empty snapshot, then the next sweep
IdleWait ==
    /\ pc = "idle_sleep"
    /\ last_sleep' = Slept("idle", IdleSleep)
    /\ NextIteration

\* line 386: asyncio.sleep(60) after a sweep, then the next sweep
SweepWait ==
    /\ pc = "sweep_sleep"
    /\ last_sleep' = Slept("sweep", SweepSleep)
    /\ NextIteration

\* lines 391-393: asyncio.sleep(30) after a loop-level exception
ErrorWait ==
    /\ pc = "error_sleep"
    /\ last_sleep' = Slept("error", ErrorSleep)
    /\ NextIteration

\* an external stop signal ends the loop (lines 388-390)
Interrupt ==
    /\ pc # "stopped"
    /\ pc' = "stopped"
    /\ stopSignal' = TRUE
    /\ UNCHANGED <<sources, idx, data_items, item_no, log, registry, last_sleep,
                   tzOffset, fields, timeline, call>>

Next ==
    \/ GetRegisteredSources
    \/ CheckSource
    \/ ProcessSource
    \/ SendItem
    \/ IdleWait
    \/ SweepWait
    \/ ErrorWait
    \/ Interrupt

Spec == Init /\ [][Next]_vars

----------------------------------------------------------------------------
(* pathway_weather_service.py: WeatherDataSource and PathwayWeatherService *)

\* self.cities, by position
Cities == 1..NumCities

\* fetch_all_weather_data: the records of the cities whose task returned one,
\* in the order of self.cities; a task that ended in an exception is left out
fetch_all_weather_data(ok) ==
    LET all == [c \in Cities |-> [city |-> c]]
    IN  SelectSeq(all, LAMBDA r : r.city \in ok)

\* what send_to_backend returns, and the payloads it has POSTed
SentBatch(success, posts) == [raised |-> FALSE, success |-> success, posts |-> posts]

\* the payload of send_to_backend
BatchPayload(weather_data) ==
    [source_type |-> "pathway_weather", data_count |-> Len(weather_data),
     weather_data |-> weather_data]

\* mutant: no handler, a transport error or an unreadable body raises
send_to_backend_NoHandler(weather_data, outcome) ==
    IF outcome \in {"200-message", "200-no-message"}
    THEN SentBatch(TRUE, <<BatchPayload(weather_data)>>)
    ELSE IF outcome = "500"
    THEN SentBatch(FALSE, <<BatchPayload(weather_data)>>)
    ELSE [raised |-> TRUE, success |-> FALSE, posts |-> <<BatchPayload(weather_data)>>]

\* WeatherDataSource.send_to_backend(weather_data): one POST of the whole
\* list; True on a 200 whose body is JSON, False on anything else
send_to_backend(weather_data, outcome) ==
    IF outcome \in {"200-message", "200-no-message"}
    THEN SentBatch(TRUE, <<BatchPayload(weather_data)>>)
    ELSE SentBatch(FALSE, <<BatchPayload(weather_data)>>)

\* what a cycle of start_ingestion_loop has done
Cycle(fetched, sends, success, raised) ==
    [fetched |-> fetched, sends |-> sends, success |-> success, raised |-> raised]

CycleInit ==
    /\ pc = "cycle_fetch"
    /\ sources = <<>>
    /\ idx = 1
    /\ data_items = <<>>
    /\ item_no = 0
    /\ log = <<>>
    /\ registry = "none"
    /\ last_sleep = NoSleep
    /\ tzOffset \in TzOffsets
    /\ stopSignal = FALSE
    /\ call = NoCall
    /\ registered_sources = EmptyDict
    /\ active_tasks = EmptyDict
    /\ clock = 0
    /\ ingested = 0
    /\ skipped = 0

\* lines 219-220: fetch the weather of all cities; data_items is weather_data
CycleFetch ==
    /\ pc = "cycle_fetch"
    /\ \/ \E ok \in SUBSET Cities :
            LET weather_data == fetch_all_weather_data(ok)
            IN  /\ data_items' = weather_data
                /\ log' = <<Cycle(Len(weather_data), 0, FALSE, FALSE)>>
                /\ pc' = IF weather_data # <<>> THEN "cycle_send" ELSE "cycle_sleep"
       \/ \* an exception leaves fetch_all_weather_data
          /\ data_items' = <<>>
          /\ log' = <<Cycle(0, 0, FALSE, TRUE)>>
          /\ pc' = "cycle_error_sleep"
    /\ last_sleep' = NoSleep
    /\ UNCHANGED <<sources, idx, item_no, registry, tzOffset, fields, timeline,
                   stopSignal, call>>

\* mutant: a failed send is repeated up to max_retries times
CycleSend_Retries ==
    /\ pc = "cycle_send"
    /\ \E outcome \in PostOutcomes :
         LET sent == send_to_backend(data_items, outcome)
         IN  /\ log' = <<[log[1] EXCEPT !.sends = @ + 1, !.success = sent.success]>>
             /\ pc' = IF ~sent.success /\ log[1].sends + 1 < max_retries
                      THEN "cycle_send" ELSE "cycle_sleep"
    /\ UNCHANGED <<sources, idx, data_items, item_no, registry, last_sleep, tzOffset,
                   fields, timeline, stopSignal, call>>

\* lines 222-230: one send of the cycle's records, whatever its outcome
CycleSend ==
    /\ pc = "cycle_send"
    /\ \E outcome \in PostOutcomes :
         LET sent == send_to_backend(data_items, outcome)
         IN  IF sent.raised
             THEN /\ log' = <<[log[1] EXCEPT !.sends = @ + 1, !.raised = TRUE]>>
                  /\ pc' = "cycle_error_sleep"
             ELSE /\ log' = <<[log[1] EXCEPT !.sends = @ + 1, !.success = sent.success]>>
                  /\ pc' = "cycle_sleep"
    /\ UNCHANGED <<sources, idx, data_items, item_no, registry, last_sleep, tzOffset,
                   fields, timeline, stopSignal, call>>

\* lines 234-235: asyncio.sleep(ingestion_interval), then the next cycle
CycleWait ==
    /\ pc = "cycle_sleep"
    /\ last_sleep' = Slept("cycle", ingestion_interval)
    /\ pc' = "cycle_fetch"
    /\ data_items' = <<>>
    /\ log' = <<>>
    /\ UNCHANGED <<sources, idx, item_no, registry, tzOffset, fields, timeline,
                   stopSignal, call>>

\* lines 237-240: asyncio.sleep(60) after an exception, then the next cycle
CycleErrorWait ==
    /\ pc = "cycle_error_sleep"
    /\ last_sleep' = Slept("error", CycleErrorSleep)
    /\ pc' = "cycle_fetch"
    /\ data_items' = <<>>
    /\ log' = <<>>
    /\ UNCHANGED <<sources, idx, item_no, registry, tzOffset, fields, timeline,
                   stopSignal, call>>

\* an interrupt leaves start_ingestion_loop (main, lines 253-257)
CycleInterrupt ==
    /\ pc # "stopped"
    /\ pc' = "stopped"
    /\ stopSignal' = TRUE
    /\ UNCHANGED <<sources, idx, data_items, item_no, log, registry, last_sleep,
                   tzOffset, fields, timeline, call>>

start_ingestion_loop ==
    \/ CycleFetch
    \/ CycleSend
    \/ CycleWait
    \/ CycleErrorWait
    \/ CycleInterrupt

CycleSpec == CycleInit /\ [][start_ingestion_loop]_vars

----------------------------------------------------------------------------
\* Direct calls of the fetch strategies and of the delivery client, for every
\* source configuration and every behaviour of the remote side.
CallFetchWeather ==
    /\ call = NoCall
    /\ \E source_config \in DirectCallSources :
         \E outcomes \in [1..Len(ConfiguredCities(source_config)) -> ProviderOutcomes] :
            call' = [fn |-> "fetch_weather_data", source_config |-> source_config,
                     outcomes |-> outcomes,
                     provider_calls |-> provider_calls(source_config),
                     result |-> fetch_weather_data(source_config, outcomes)]
    /\ UNCHANGED <<pc, sources, idx, data_items, item_no, log, registry, last_sleep,
                   tzOffset, fields, timeline, stopSignal>>

CallFetchRss ==
    /\ call = NoCall
    /\ \E source_config \in DirectCallSources, http \in FeedOutcomes,
          content \in DirectCallFeeds :
         call' = [fn |-> "fetch_rss_data", source_config |-> source_config,
                  http |-> http, content |-> content,
                  result |-> fetch_rss_data(source_config, http, content)]
    /\ UNCHANGED <<pc, sources, idx, data_items, item_no, log, registry, last_sleep,
                   tzOffset, fields, timeline, stopSignal>>

CallSendData ==
    /\ call = NoCall
    /\ \E source_config \in DirectCallSources, outcome \in PostOutcomes :
         call' = [fn |-> "send_data_to_backend", source_config |-> source_config,
                  outcome |-> outcome,
                  result |-> send_data_to_backend(source_config, outcome)]
    /\ UNCHANGED <<pc, sources, idx, data_items, item_no, log, registry, last_sleep,
                   tzOffset, fields, timeline, stopSignal>>

\* the source configurations parse_rss_content is called with
ParseSources == {c \in DirectCallSources : c.sourceType \in {"rss", "news"}}

CallParse ==
    /\ call = NoCall
    /\ \E source_config \in ParseSources, content \in ParseDocuments :
         call' = [fn |-> "parse_rss_content", source_config |-> source_config,
                  content |-> content,
                  result |-> parse_rss_content(content, source_config)]
    /\ UNCHANGED <<pc, sources, idx, data_items, item_no, log, registry, last_sleep,
                   tzOffset, fields, timeline, stopSignal>>

\* the lists of records send_to_backend is called with
RecordLists == {fetch_all_weather_data(1..n) : n \in 0..NumCities}

CallSendToBackend ==
    /\ call = NoCall
    /\ \E weather_data \in RecordLists, outcome \in PostOutcomes :
         call' = [fn |-> "send_to_backend", weather_data |-> weather_data,
                  outcome |-> outcome,
                  result |-> send_to_backend(weather_data, outcome)]
    /\ UNCHANGED <<pc, sources, idx, data_items, item_no, log, registry, last_sleep,
                   tzOffset, fields, timeline, stopSignal>>

CallNext ==
    \/ CallSendToBackend
    \/ CallFetchWeather
    \/ CallFetchRss
    \/ CallParse
    \/ CallSendData

CallSpec == Init /\ [][CallNext]_vars

\* A timed run: a registry with one eligible source of interval 300 that
\* has just been processed; the registry sets lastIngestedAt to the instant
\* of each processing, and every sweep ends in the inter-sweep sleep.
TimedSource ==
    [BaseSource EXCEPT !.lastIngestedAt = [kind |-> "ts", utc |-> ingested, off |-> 0],
                       !.ingestionInterval = NumInterval(DefaultInterval)]

\* the seconds a processing takes before the registry records it
ProcessingDelays == {0, 1}

TimedInit ==
    /\ pc = "timed_sleep"
    /\ sources = <<>>
    /\ idx = 1
    /\ data_items = <<>>
    /\ item_no = 0
    /\ log = <<>>
    /\ registry = "none"
    /\ last_sleep = NoSleep
    /\ tzOffset \in TzOffsets
    /\ stopSignal = FALSE
    /\ call = NoCall
    /\ registered_sources = EmptyDict
    /\ active_tasks = EmptyDict
    /\ clock = 0
    /\ ingested = 0
    /\ skipped = 0

\* lines 358-377 for the timed source: the due check and what follows
TimedCheck ==
    /\ pc = "timed_check"
    /\ Eligible(TimedSource)
    /\ IF time_diff(TimedSource, clock, tzOffset) >= Interval(TimedSource)
       THEN \E delay \in ProcessingDelays :
              /\ clock' = clock + delay
              /\ ingested' = clock + delay
              /\ skipped' = 0
       ELSE /\ skipped' = skipped + 1
            /\ UNCHANGED <<clock, ingested>>
    /\ pc' = "timed_sleep"
    /\ UNCHANGED <<sources, idx, data_items, item_no, log, registry, last_sleep,
                   tzOffset, fields, stopSignal, call>>

\* line 386: the inter-sweep sleep, then the registry query of the next sweep
TimedSleep ==
    /\ pc = "timed_sleep"
    /\ clock + SweepSleep <= MaxClock
    /\ clock' = clock + SweepSleep
    /\ pc' = "timed_check"
    /\ UNCHANGED <<sources, idx, data_items, item_no, log, registry, last_sleep,
                   tzOffset, fields, stopSignal, call, ingested, skipped>>

TimedNext ==
    \/ TimedCheck
    \/ TimedSleep

TimedSpec == TimedInit /\ [][TimedNext]_vars

\* the steps of the scheduler itself: the event loop runs the coroutine, every
\* HTTP call is bounded by its timeout and every sleep ends
SchedulerStep ==
    \/ GetRegisteredSources
    \/ CheckSource
    \/ ProcessSource
    \/ SendItem
    \/ IdleWait
    \/ SweepWait
    \/ ErrorWait

FairSpec == Spec /\ WF_vars(SchedulerStep)

----------------------------------------------------------------------------
(* Properties of the scheduler *)

\* the scheduling fields of a source can be interpreted
WellFormedSchedule(source) ==
    /\ source.mapping
    /\ source.lastIngestedAt.kind # "invalid"
    /\ source.ingestionInterval.kind # "bad"

\* due as the data model defines it: eligible, and never ingested or at least
\* ingestionInterval seconds after lastIngestedAt
IsDue(source, now) ==
    /\ Eligible(source)
    /\ \/ source.lastIngestedAt.kind = "absent"
       \/ now - source.lastIngestedAt.utc >= Interval(source)

\* the source passes the scheduler's own checks of lines 358-373
Selected(i) ==
    /\ WellFormedSchedule(sources[i])
    /\ Eligible(sources[i])
    /\ \/ sources[i].lastIngestedAt.kind = "absent"
       \/ time_diff(sources[i], log[i].now, tzOffset) >= Interval(sources[i])

\* the processing of source i is over
Finished(i) == i < idx \/ pc \in {"sweep_sleep"}

\* C1: in every sweep, process_source is invoked for a source iff the source
\* is eligible and (lastIngestedAt is absent or now - lastIngestedAt >=
\* ingestionInterval, default 300), the boundary included.
C1_ProcessedIffDue ==
    \A i \in 1..Len(log) :
        (log[i].evaluated /\ WellFormedSchedule(sources[i]))
            => (log[i].processed <=> IsDue(sources[i], log[i].now))

\* C2: a source with isActive false or missing, or a status other than
\* "active", gets no fetch call and no delivery POST in the sweep, whatever
\* the other sources of the snapshot are.
C2_IneligibleUntouched ==
    \A i \in 1..Len(log) :
        (sources[i].mapping /\ (sources[i].isActive # "true" \/ sources[i].status # "active"))
            => /\ ~log[i].processed
               /\ log[i].fetches = 0
               /\ log[i].sends = 0
               /\ log[i].posts = 0

C2_Witness ==
    /\ pc = "sweep_sleep"
    /\ \E i, j \in 1..Len(log) :
          /\ sources[i].isActive # "true"
          /\ log[i].evaluated
          /\ log[j].posts > 0

\* a failure while fetching or delivering for the due source i
FailedSource(i) ==
    /\ log[i].processed
    /\ log[i].caught \/ log[i].success < log[i].sends

\* C3: an exception raised while fetching or delivering for one due source
\* is caught and does not abort the sweep: every later source of the snapshot
\* is still evaluated and, if the due check selects it, processed.
C3_FailureDoesNotAbortSweep ==
    \A i \in 1..Len(log) :
        FailedSource(i) =>
            /\ pc = "error_sleep" => idx > i
            /\ \A j \in (i + 1)..Len(log) :
                  Finished(j) => /\ log[j].evaluated
                                 /\ Selected(j) => log[j].processed
            /\ pc = "sweep_sleep" => \A j \in (i + 1)..Len(log) : Finished(j)

C3_Witness ==
    /\ pc = "sweep_sleep"
    /\ \E i, j \in 1..Len(log) :
          /\ i < j
          /\ FailedSource(i)
          /\ log[i].success < log[i].sends
          /\ log[j].reported
          /\ log[j].success > 0

\* C4: the loop never ends because of an error: it is left only on a stop
\* signal, and after any failure it comes back to the top of the loop.
C4_LoopEndsOnlyOnStopSignal ==
    /\ [](pc = "stopped" => stopSignal)
    /\ []<>(pc = "registry" \/ stopSignal)

C4_Witness ==
    /\ pc = "registry"
    /\ last_sleep.kind = "error"
    /\ ~stopSignal

\* the registry query failed: transport failure, non-200, unreadable body
RegistryFailed == registry \in {"error", "non-200", "200-not-json"}

\* C5: get_registered_sources never raises and returns an empty list on a
\* transport failure or non-200 reply; the sweep is then idle (no fetch, no
\* delivery), the idle wait completes and the next sweep starts.
C5_RegistryFailureIsIdleSweep ==
    /\ [](RegistryFailed =>
            /\ pc \in {"idle_sleep", "stopped"}
            /\ sources = <<>>
            /\ log = <<>>
            /\ data_items = <<>>
            /\ pc = "idle_sleep" => ENABLED IdleWait)
    /\ [][(RegistryFailed /\ pc = "idle_sleep")
            => (pc' = "stopped" \/ (pc' = "registry" /\ last_sleep'.kind = "idle"))]_vars

C5_Witness ==
    /\ RegistryFailed
    /\ pc = "idle_sleep"

\* C6: a due source whose fetch returned n items gets exactly n delivery
\* POSTs (none for n = 0), a failed delivery does not stop the remaining
\* ones, and 0 <= successCount <= n counts the successful deliveries.
C6_OnePostPerItem ==
    \A i \in 1..Len(log) :
        /\ log[i].posts <= log[i].total
        /\ log[i].success <= log[i].sends
        /\ (log[i].fetches = 1 /\ Finished(i)) =>
              /\ log[i].sends = log[i].total
              /\ log[i].posts = log[i].total
              /\ log[i].success <= log[i].total
              /\ log[i].reported <=> log[i].total > 0

\* the weather source of the end-to-end scenario: cities ["New York"], no API
\* key, no sourceUrl, eligible and never ingested
EndToEndSource(source) ==
    /\ source.mapping
    /\ source.sourceType = "weather"
    /\ source.keys = MetaKeys \ {"sourceUrl"}
    /\ source.config = "object"
    /\ source.cities = <<"New York">>
    /\ source.apiKey = "absent"
    /\ Eligible(source)
    /\ source.lastIngestedAt.kind = "absent"

\* C7: a snapshot with the single end-to-end weather source leads to exactly
\* one delivery attempt to the backend, and with a backend that answers 200
\* (with a JSON body) the summary reports 1 success out of 1 item.
C7_EndToEndOneDelivery ==
    (Len(sources) = 1 /\ EndToEndSource(sources[1]) /\ pc = "sweep_sleep") =>
        /\ log[1].reported
        /\ log[1].total = 1
        /\ log[1].sends = 1
        /\ log[1].posts = 1
        /\ \A outcome \in {"200-message", "200-no-message"} :
              LET sent == send_data_to_backend(sources[1], outcome)
              IN  sent.posted /\ sent.success

\* the fetch met an internal error: an unusable configuration, a failed or
\* malformed provider reply, a failed feed request or an unparsable feed
FetchError(c) ==
    IF c.fn = "fetch_weather_data"
    THEN \/ c.source_config.config = "null"
         \/ ~Has(c.source_config, "sourceId") /\ ConfiguredCities(c.source_config) # <<>>
         \/ /\ ConfiguredApiKey(c.source_config) = "real"
            /\ \E k \in DOMAIN c.outcomes : c.outcomes[k] # "200"
    ELSE /\ Has(c.source_config, "sourceUrl")
         /\ c.source_config.sourceUrl # ""
         /\ c.http # "200" \/ ~c.content.wellFormed

\* C8: fetch_weather_data and fetch_rss_data never raise, for any source
\* configuration and any behaviour of the provider, and on an internal error
\* return synthetic fallback items, not an empty list.
C8_FetchNeverRaisesNorEmpty ==
    call.fn \in {"fetch_weather_data", "fetch_rss_data"} =>
        /\ ~call.result.raised
        /\ FetchError(call) => call.result.items # <<>>

\* C9 as stated: for every eligible and due rss or news source the RSS
\* strategy returns a non-empty list, so the "no data retrieved" path is
\* never taken and at least one delivery attempt is made.
C9_RssNeverEmpty ==
    \A i \in 1..Len(log) :
        (sources[i].sourceType \in {"rss", "news"} /\ log[i].processed /\ Finished(i)) =>
            /\ log[i].total > 0
            /\ log[i].sends >= 1

\* C9 amended: whenever process_source invokes the RSS strategy for an rss or
\* news source whose sourceUrl is present and not empty, the strategy returns
\* a non-empty list and at least one call of send_data_to_backend follows.
C9_RssWithUrlNeverEmpty ==
    \A i \in 1..Len(log) :
        (/\ sources[i].sourceType \in {"rss", "news"}
         /\ Has(sources[i], "sourceUrl") /\ sources[i].sourceUrl # ""
         /\ log[i].fetches = 1) =>
            /\ log[i].total > 0
            /\ ~log[i].caught
            /\ Finished(i) => log[i].sends >= 1

C9_Witness ==
    \E i \in 1..Len(log) :
        /\ sources[i].sourceType \in {"rss", "news"}
        /\ sources[i].sourceUrl # ""
        /\ log[i].fetches = 1
        /\ log[i].reported
        /\ log[i].sends = MockArticles

\* C10: send_data_to_backend returns success exactly when the backend answers
\* the POST with HTTP 200; the message is then the message field of the body,
\* or "Success" without one; every other status gives success = false.
C10_SuccessIffHttp200 ==
    call.fn = "send_data_to_backend" =>
        LET answered200 == call.result.posted /\ Answered200(call.outcome)
        IN  /\ call.result.success <=> answered200
            /\ call.result.success =>
                  call.result.message = (IF call.outcome = "200-message" THEN "ok" ELSE "Success")

\* the delivery failed: a metadata key is missing, or the backend answered
\* with a non-200 status, or the connection failed or timed out
DeliveryFailed(c) ==
    \/ ~(MetaKeys \subseteq c.source_config.keys)
    \/ c.outcome \in {"500", "connection-error", "timeout"}

\* C11: send_data_to_backend never raises: for every source configuration
\* (also one with missing metadata keys) and every transport outcome it
\* returns a (success, message) pair, with success = false on a failure.
C11_SendNeverRaises ==
    call.fn = "send_data_to_backend" =>
        /\ ~call.result.raised
        /\ call.result.success \in BOOLEAN
        /\ call.result.message # ""
        /\ DeliveryFailed(call) => ~call.result.success

C11_Witness ==
    /\ call.fn = "send_data_to_backend"
    /\ ~(MetaKeys \subseteq call.source_config.keys)
    /\ call.outcome = "timeout"
    /\ ~call.result.raised
    /\ ~call.result.success

\* C12: a stop signal is acted on only between sweeps: when the scheduler
\* has exited on a stop signal, every source of the last sweep has had a
\* delivery attempt for all of its fetched items or for none of them.
C12_StopLeavesNoPartialDelivery ==
    (pc = "stopped" /\ stopSignal) =>
        \A i \in DOMAIN log : log[i].sends \in {0, log[i].total}

\* the weather strategy was called with a configuration it can read: a
\* source with its sourceId and a config that is an object or absent
ReadableWeatherCall ==
    /\ call.fn = "fetch_weather_data"
    /\ Has(call.source_config, "sourceId")
    /\ call.source_config.config # "null"

\* C13: with apiKey absent or "demo-key" and a non-empty list of cities the
\* output is non-empty, has one item per city in input order, each item's
\* city is the input city, and no provider call is made; with a real key and
\* non-200 provider responses the output is synthetic items, one per city.
C13_DemoKeyIsSyntheticPerCity ==
    ReadableWeatherCall =>
        LET cities == ConfiguredCities(call.source_config)
            api_key == ConfiguredApiKey(call.source_config)
            items == call.result.items
        IN  /\ (api_key \in {"absent", "demo-key"} /\ cities # <<>>) =>
                  /\ ~call.result.raised
                  /\ items # <<>>
                  /\ Len(items) = Len(cities)
                  /\ \A i \in 1..Len(cities) : items[i].label = RequestedCity(cities[i])
                  /\ call.provider_calls = 0
            /\ (api_key = "real" /\ \A k \in DOMAIN call.outcomes :
                                      call.outcomes[k] = "non-200") =>
                  /\ Len(items) = Len(cities)
                  /\ \A i \in 1..Len(items) : items[i].synthetic

C13_Witness ==
    /\ ReadableWeatherCall
    /\ ConfiguredApiKey(call.source_config) = "demo-key"
    /\ Len(ConfiguredCities(call.source_config)) = 2
    /\ \A k \in DOMAIN call.outcomes : call.outcomes[k] = "200"
    /\ Len(call.result.items) = 2
    /\ call.provider_calls = 0

\* C14: with a real API key and any pattern of per-city outcomes the output
\* has exactly one item per requested city; a city whose lookup fails gets
\* its synthetic item, and every other city gets the item of its own outcome.
C14_CitiesAreIndependent ==
    (ReadableWeatherCall /\ ConfiguredApiKey(call.source_config) = "real") =>
        LET cities == ConfiguredCities(call.source_config)
            source_id == call.source_config.sourceId
            items == call.result.items
        IN  /\ ~call.result.raised
            /\ Len(items) = Len(cities)
            /\ \A i \in 1..Len(cities) :
                  items[i] = IF call.outcomes[i] = "200"
                             THEN live_weather_data(cities[i], source_id)
                             ELSE generate_mock_weather_data(cities[i], source_id)

C14_Witness ==
    /\ ReadableWeatherCall
    /\ ConfiguredApiKey(call.source_config) = "real"
    /\ call.outcomes = <<"timeout", "200">>
    /\ Len(call.result.items) = 2
    /\ call.result.items[1].synthetic
    /\ ~call.result.items[2].synthetic

\* parse_rss_content was called directly
ParseCall == call.fn = "parse_rss_content"

\* the source configuration has the three keys an rss_item is built from, as
\* every configuration has that process_source and fetch_rss_data pass on
FeedSourceComplete(source_config) ==
    {"sourceId", "sourceName", "sourceUrl"} \subseteq source_config.keys

\* the element's title child has text other than white space
HasTitle(element) ==
    element.children["title"].child /\ element.children["title"].body > 0

\* a well-formed RSS 2.0 document: only <item> elements
IsRssDocument(content) == content.wellFormed /\ content.entries = <<>>

Min(a, b) == IF a < b THEN a ELSE b

\* C15: parse_rss_content never returns more than 10 items, and for a
\* well-formed RSS 2.0 document with n <item> elements that all have a title
\* it returns min(n, 10) items: the first 10 of the document, in its order.
C15_AtMostTenFirstItems ==
    ParseCall =>
        LET items == call.result.items
            elements == call.content.items
        IN  /\ Len(items) <= ItemCap
            /\ (/\ IsRssDocument(call.content)
                /\ FeedSourceComplete(call.source_config)
                /\ \A i \in 1..Len(elements) : HasTitle(elements[i])) =>
                  /\ Len(items) = Min(Len(elements), ItemCap)
                  /\ \A i \in 1..Len(items) :
                        items[i] = rss_item(elements[i], call.source_config)

C15_Witness ==
    /\ ParseCall
    /\ IsRssDocument(call.content)
    /\ FeedSourceComplete(call.source_config)
    /\ Len(call.content.items) > ItemCap
    /\ \A i \in 1..Len(call.content.items) : HasTitle(call.content.items[i])
    /\ Len(call.result.items) = ItemCap

\* a well-formed Atom document: no <item>, entries with an Atom title
IsAtomDocument(content) ==
    /\ content.wellFormed
    /\ content.items = <<>>
    /\ content.entries # <<>>
    /\ \A i \in 1..Len(content.entries) :
          /\ content.entries[i].children["{atom}title"].child
          /\ content.entries[i].children["{atom}title"].body > 0

\* C16: for a well-formed Atom document whose entries all have a title,
\* parse_rss_content returns one item per entry, up to 10, and the RSS
\* strategy returns these articles, not the synthetic fallback.
C16_AtomEntriesAreParsed ==
    /\ (/\ ParseCall
        /\ IsAtomDocument(call.content)
        /\ FeedSourceComplete(call.source_config)) =>
          Len(call.result.items) = Min(Len(call.content.entries), ItemCap)
    /\ (/\ call.fn = "fetch_rss_data"
        /\ call.http = "200"
        /\ IsAtomDocument(call.content)
        /\ FeedSourceComplete(call.source_config)
        /\ call.source_config.sourceUrl # "") =>
          /\ ~call.result.raised
          /\ Len(call.result.items) = Len(call.content.entries)
          /\ \A i \in 1..Len(call.result.items) : ~call.result.items[i].synthetic

\* C17: parse_rss_content never raises; malformed XML gives the empty list;
\* the failure of building one item drops that item only: every element
\* among the first 10 that has a title and did not fail is in the output.
C17_ParseNeverRaises ==
    ParseCall =>
        LET items == call.result.items
            first == FirstItems(MatchedItems(call.content))
        IN  /\ ~call.result.raised
            /\ ~call.content.wellFormed => items = <<>>
            /\ \A i \in 1..Len(first) :
                  (HasTitle(first[i]) /\ FeedSourceComplete(call.source_config)) =>
                      \E j \in 1..Len(items) :
                          items[j] = rss_item(first[i], call.source_config)

C17_Witness ==
    /\ ParseCall
    /\ ~call.content.wellFormed
    /\ ~call.result.raised
    /\ call.result.items = <<>>

\* C18: for an rss or news source with a feed URL, when the GET fails, times
\* out or is not a 200, or the parser yields no item, fetch_rss_data returns
\* exactly two synthetic articles with the source's sourceId, sourceName and
\* sourceUrl; when the parser yields items, it returns exactly these.
C18_TwoMockArticlesOrParsedItems ==
    (/\ call.fn = "fetch_rss_data"
     /\ FeedSourceComplete(call.source_config)
     /\ call.source_config.sourceUrl # "") =>
        LET items == call.result.items
            parsed == parse_rss_content(call.content, call.source_config).items
        IN  /\ ~call.result.raised
            /\ (call.http # "200" \/ parsed = <<>>) =>
                  /\ Len(items) = 2
                  /\ \A i \in 1..Len(items) :
                        /\ items[i].synthetic
                        /\ items[i].sourceId = call.source_config.sourceId
                        /\ items[i].sourceName = call.source_config.sourceName
                        /\ items[i].sourceUrl = call.source_config.sourceUrl
            /\ (call.http = "200" /\ parsed # <<>>) =>
                  /\ items = parsed
                  /\ \A i \in 1..Len(items) : ~items[i].synthetic

C18_Witness ==
    /\ call.fn = "fetch_rss_data"
    /\ FeedSourceComplete(call.source_config)
    /\ call.source_config.sourceUrl # ""
    /\ call.http = "200"
    /\ call.content.wellFormed
    /\ call.content.items # <<>>
    /\ ~HasTitle(call.content.items[1])
    /\ Len(call.result.items) = 2
    /\ call.result.items[1].synthetic

\* the output has an item made from this element
InOutput(element, items) ==
    \E j \in 1..Len(items) : items[j].title.of = element.pos

\* C19: an item without a title (no title element, or one with empty text)
\* is never in the output and every output item has a non-empty title; a
\* missing description, link or date never drops an item.
C19_TitleIsTheOnlyRequiredField ==
    (ParseCall /\ IsRssDocument(call.content) /\ FeedSourceComplete(call.source_config)) =>
        LET items == call.result.items
            first == FirstItems(call.content.items)
        IN  /\ \A j \in 1..Len(items) : Truthy(items[j].title)
            /\ \A i \in 1..Len(first) : InOutput(first[i], items) <=> HasTitle(first[i])

C19_Witness ==
    /\ ParseCall
    /\ IsRssDocument(call.content)
    /\ FeedSourceComplete(call.source_config)
    /\ Len(call.content.items) = 3
    /\ ~call.content.items[1].children["title"].child
    /\ HasTitle(call.content.items[2])
    /\ ~call.content.items[2].children["description"].child
    /\ ~call.content.items[2].children["link"].child
    /\ ~call.content.items[2].children["pubDate"].child
    /\ Len(call.result.items) = 1
    /\ call.result.items[1].title.of = 2

\* the tag of the child the description is read from, "" when there is none
RECURSIVE DescriptionTag(_, _)
DescriptionTag(element, tag_names) ==
    IF tag_names = <<>> THEN ""
    ELSE LET found == element.children[Head(tag_names)]
         IN  IF found.child /\ found.lead + found.body + found.trail > 0
             THEN Head(tag_names)
             ELSE DescriptionTag(element, Tail(tag_names))

\* the element an output item was made from
ElementOf(item, content) == content.items[item.title.of]

\* the output description is the first DescLimit characters of the
\* characters skip+1 .. skip+length of the source text, with the marker when
\* length exceeds DescLimit, and these characters themselves otherwise
IsTruncationOf(out, element, tag, skip, length) ==
    /\ out.text = Slice(element.pos, tag, skip, skip + Min(length, DescLimit))
    /\ out.marker <=> length > DescLimit

\* C20 as stated: the output description is the first 500 characters of the
\* source description plus "..." when the source description is longer than
\* 500 characters, and the unmodified source description otherwise.
C20_TruncatesSourceDescription ==
    (ParseCall /\ IsRssDocument(call.content)) =>
        \A j \in 1..Len(call.result.items) :
            LET element == ElementOf(call.result.items[j], call.content)
                tag == DescriptionTag(element, <<"description", "summary", "{atom}summary">>)
                source == IF tag = "" THEN NoText ELSE element.children[tag]
            IN  IsTruncationOf(call.result.items[j].description, element, tag,
                               0, source.lead + source.body + source.trail)

\* C20 amended: the same, of the source description with its leading and
\* trailing white space removed.
C20_TruncatesTrimmedDescription ==
    (ParseCall /\ IsRssDocument(call.content)) =>
        \A j \in 1..Len(call.result.items) :
            LET element == ElementOf(call.result.items[j], call.content)
                tag == DescriptionTag(element, <<"description", "summary", "{atom}summary">>)
                source == IF tag = "" THEN NoText ELSE element.children[tag]
            IN  IsTruncationOf(call.result.items[j].description, element, tag,
                               source.lead, source.body)

C20_Witness ==
    /\ ParseCall
    /\ IsRssDocument(call.content)
    /\ \E j \in 1..Len(call.result.items) :
          LET source == ElementOf(call.result.items[j], call.content).children["description"]
              out == call.result.items[j].description
          IN  /\ source.lead > 0
              /\ source.body = DescLimit + 100
              /\ StrLen(out.text) = DescLimit
              /\ out.marker

\* source i is in its fetch or delivery phase
InFetchOrDelivery(i) ==
    /\ log[i].processed
    /\ ~log[i].caught
    /\ \/ i = idx /\ pc \in {"process", "deliver"}
       \/ log[i].sends < log[i].total

\* C21: sources are processed one after the other within a sweep: at most
\* one source is in its fetch or delivery phase, and when the fetch of a
\* source starts every delivery attempt of the sources before it is over
\* and no source after it has been touched.
C21_SourcesAreSequential ==
        /\ \A i, j \in 1..Len(log) :
              (InFetchOrDelivery(i) /\ InFetchOrDelivery(j)) => i = j
        /\ \A i \in 1..Len(log) :
              /\ InFetchOrDelivery(i) => i = idx
              /\ i > idx => log[i] = NoLog
              /\ (i < idx /\ log[i].fetches = 1 /\ ~log[i].caught) =>
                    log[i].sends = log[i].total

C21_Witness ==
    /\ pc = "deliver"
    /\ idx = 2
    /\ log[1].total > 0
    /\ log[1].sends = log[1].total
    /\ log[2].fetches = 1
    /\ log[2].sends = 0

\* the scheduler sleeps between two sweeps
Sleeping == pc \in {"idle_sleep", "sweep_sleep", "error_sleep"}

\* the positions that may follow a position in the cycle Idle ("registry"),
\* Sweeping ("check": Skip, or Fetching "process" then Delivering
\* "deliver"), Sleeping, Idle; a stop signal may end the cycle anywhere
CycleSuccessors(p) ==
    CASE p = "registry" -> {"check", "idle_sleep", "error_sleep", "stopped"}
      [] p = "check" -> {"check", "process", "sweep_sleep", "error_sleep", "stopped"}
      [] p = "process" -> {"check", "deliver", "sweep_sleep", "stopped"}
      [] p = "deliver" -> {"check", "deliver", "sweep_sleep", "stopped"}
      [] p \in {"idle_sleep", "sweep_sleep", "error_sleep"} -> {"registry", "stopped"}
      [] OTHER -> {}

\* C22: the scheduler follows the cycle Idle, Sweeping (per source: Skip, or
\* Fetching then Delivering), Sleeping, Idle; it sleeps 30 seconds when the
\* snapshot is empty, 60 seconds after a sweep that evaluated every source,
\* 30 seconds after an exception caught at the loop boundary, and takes
\* exactly one sleep between two consecutive sweeps.
C22_CycleAndSleeps ==
    /\ [](pc = "idle_sleep" => sources = <<>>)
    /\ [](pc = "sweep_sleep" =>
            sources # <<>> /\ \A i \in 1..Len(log) : log[i].evaluated)
    /\ [](pc = "error_sleep" =>
            \/ sources = <<>> /\ registry # "none"
            \/ idx \in 1..Len(sources) /\ ~sources[idx].mapping)
    /\ [][/\ pc' \in CycleSuccessors(pc) \cup {pc}
          /\ pc' = "registry" =>
                /\ Sleeping
                /\ pc = "idle_sleep" => last_sleep' = Slept("idle", 30)
                /\ pc = "sweep_sleep" => last_sleep' = Slept("sweep", 60)
                /\ pc = "error_sleep" => last_sleep' = Slept("error", 30)
          /\ (pc = "registry" /\ pc' # "stopped") => last_sleep' = NoSleep
          /\ (pc' # "registry" /\ pc # "registry") => last_sleep' = last_sleep]_vars

C22_Witness ==
    /\ pc = "registry"
    /\ last_sleep = Slept("sweep", 60)
    /\ ~stopSignal

\* C23: the scheduler carries no state from one sweep to the next: which
\* sources a sweep processes is a function of its snapshot and of the clock
\* readings of its due checks (Selected), whatever happened before; the
\* snapshot entries, lastIngestedAt included, are never written; nothing of
\* a sweep is left at the top of the loop; registered_sources and
\* active_tasks stay empty.
C23_NoStateAcrossSweeps ==
    /\ [](registered_sources = EmptyDict /\ active_tasks = EmptyDict)
    /\ [](\A i \in 1..Len(log) :
            (Finished(i) /\ WellFormedSchedule(sources[i])) =>
                (log[i].processed <=> Selected(i)))
    /\ [](pc = "registry" => sources = <<>> /\ log = <<>> /\ data_items = <<>>)
    /\ [][(pc # "registry" /\ pc' # "registry") => sources' = sources]_vars

C23_Witness ==
    /\ pc = "sweep_sleep"
    /\ Len(sources) = 2
    /\ sources[1] = sources[2]
    /\ sources[1].lastIngestedAt.kind = "ts"
    /\ log[1].now # log[2].now
    /\ log[1].processed
    /\ ~log[2].processed
    /\ registered_sources = EmptyDict

\* C24: with the 60-second inter-sweep sleep and a registry that sets
\* lastIngestedAt at each processing, an eligible source of interval 300 is
\* skipped as not due at most 5 times between two processings and is
\* processed in the first sweep that starts at or after lastIngestedAt + 300.
C24_AtMostFiveSkips ==
    /\ skipped <= 5
    /\ (pc = "timed_sleep" /\ skipped > 0) => clock < ingested + 300

\* an eligible source whose due check cannot be computed: lastIngestedAt is
\* not an ISO timestamp, or it is one and ingestionInterval is not a number
Uninterpretable(source) ==
    /\ source.mapping
    /\ Eligible(source)
    /\ \/ source.lastIngestedAt.kind = "invalid"
       \/ source.lastIngestedAt.kind = "ts" /\ source.ingestionInterval.kind = "bad"

\* C25: an eligible source whose lastIngestedAt or ingestionInterval cannot
\* be interpreted is skipped in the sweep with no fetch and no delivery
\* call; the error is caught at the per-source boundary and the later
\* sources of the snapshot are still evaluated in the same sweep.
C25_BadScheduleSkipsSourceOnly ==
    \A i \in 1..Len(log) :
        (log[i].evaluated /\ Uninterpretable(sources[i])) =>
            /\ ~log[i].processed
            /\ log[i].fetches = 0
            /\ log[i].sends = 0
            /\ log[i].posts = 0
            /\ log[i].caught
            /\ pc = "error_sleep" => idx > i
            /\ pc \notin {"stopped", "error_sleep"} => idx > i
            /\ \A j \in (i + 1)..Len(log) : Finished(j) => log[j].evaluated
            /\ pc = "sweep_sleep" => \A j \in (i + 1)..Len(log) : log[j].evaluated

C25_Witness ==
    /\ pc = "sweep_sleep"
    /\ \E i, j \in 1..Len(log) :
          /\ i < j
          /\ sources[i].lastIngestedAt.kind = "invalid"
          /\ Uninterpretable(sources[i])
          /\ log[i].caught
          /\ log[j].processed
          /\ log[j].posts > 0

\* C26: an exception raised while reading an entry's name, status or
\* isActive (an entry that is not a mapping) is caught only at the loop
\* boundary: that entry and the remaining ones are not evaluated in the
\* sweep, the 60-second sleep is not taken, the scheduler sleeps 30 seconds
\* and starts a new sweep.
C26_BadEntryEndsTheSweep ==
    /\ [](\A i \in 1..Len(log) :
            ~sources[i].mapping =>
                /\ \A j \in i..Len(log) : log[j] = NoLog
                /\ idx <= i
                /\ pc # "sweep_sleep")
    /\ [][(pc = "check" /\ ~sources[idx].mapping) =>
            pc' \in {"error_sleep", "stopped"}]_vars
    /\ [][pc = "error_sleep" =>
            \/ pc' = "stopped"
            \/ pc' = "registry" /\ last_sleep' = Slept("error", 30)]_vars

C26_Witness ==
    /\ pc = "error_sleep"
    /\ Len(sources) = 2
    /\ idx = 1
    /\ ~sources[1].mapping
    /\ sources[2].mapping
    /\ Eligible(sources[2])
    /\ sources[2].lastIngestedAt.kind = "absent"
    /\ log[2] = NoLog

\* C27: send_to_backend sends the whole list of records in one POST whose
\* data_count is the number of records, returns True only when the backend
\* answered HTTP 200, and returns False without raising for any other status
\* and any transport error.
C27_OneBatchPostTrueOnlyOn200 ==
    call.fn = "send_to_backend" =>
        /\ ~call.result.raised
        /\ Len(call.result.posts) = 1
        /\ call.result.posts[1].data_count = Len(call.weather_data)
        /\ call.result.posts[1].weather_data = call.weather_data
        /\ call.result.success => Answered200(call.outcome)
        /\ call.outcome \in {"500", "connection-error", "timeout"} => ~call.result.success

C27_Witness ==
    /\ call.fn = "send_to_backend"
    /\ Len(call.weather_data) = NumCities
    /\ call.outcome = "timeout"
    /\ ~call.result.raised
    /\ ~call.result.success
    /\ call.result.posts[1].data_count = NumCities

\* C28: every cycle of start_ingestion_loop makes at most one call of
\* send_to_backend, and only when the fetch returned a record; a failed send
\* is not repeated: whatever its outcome the loop sleeps ingestion_interval
\* seconds and the next cycle fetches anew; an exception in the cycle leads
\* to a 60-second sleep instead.
C28_OneSendPerCycle ==
    /\ [](log # <<>> =>
            /\ log[1].sends <= 1
            /\ log[1].sends = 1 => log[1].fetched >= 1
            /\ pc = "cycle_sleep" => (~log[1].raised /\ (log[1].fetched >= 1 => log[1].sends = 1))
            /\ pc = "cycle_error_sleep" => log[1].raised)
    /\ [][pc = "cycle_send" => pc' \in {"cycle_sleep", "stopped"}]_vars
    /\ [][pc = "cycle_sleep" =>
            \/ pc' = "stopped"
            \/ /\ pc' = "cycle_fetch"
               /\ last_sleep' = Slept("cycle", ingestion_interval)
               /\ data_items' = <<>>]_vars
    /\ [][pc = "cycle_error_sleep" =>
            \/ pc' = "stopped"
            \/ pc' = "cycle_fetch" /\ last_sleep' = Slept("error", 60)]_vars

C28_Witness ==
    /\ pc = "cycle_sleep"
    /\ log[1].fetched = NumCities
    /\ log[1].sends = 1
    /\ ~log[1].success
    /\ last_sleep = NoSleep

====
